---- MODULE Spec2Model ----
(***************************************************************************)
(* The debounced undo/redo history hook (hooks/useHistory) of the Marvel   *)
(* Rivals ability builder, as a state machine.                             *)
(*                                                                         *)
(* The hook keeps a React state cell {past, present, future} and three     *)
(* refs: lastSavedStateRef, debounceTimerRef and historyVersionRef.  Each  *)
(* call of setState / undo / redo / clearHistory and each firing of the    *)
(* debounce timer is one atomic step (single-threaded event loop).         *)
(*                                                                         *)
(* The application state T is opaque to the hook, which only compares its  *)
(* JSON.stringify images; it is modelled by the one-field object           *)
(* {difficulty: n}.  Variables marked `history` record what the last step  *)
(* was and the state it started from; the hook never reads them.           *)
(*                                                                         *)
(* The template codec (utils: downloadTemplate, parseTemplateFile) is      *)
(* modelled on JavaScript values: SpecExport exports a hero and imports    *)
(* the file back, SpecImport imports a hand-edited template file.          *)
(***************************************************************************)
EXTENDS Integers, Sequences, FiniteSets, TLC

\* ------------------------------------------------------------------ bounds
\* The application state T is the record {difficulty: n}, n in 0..MaxDifficulty.
MaxDifficulty == 2
\* Number of hook calls / timer firings explored from each initial state.
MaxSteps == 8
\* Longest run of spaced commits explored by SpecSpaced (beyond the 50 cap).
MaxN == 52

\* -------------------------------------------------------- program constants
MAX_HISTORY_SIZE == 50
TEMPLATE_VERSION == 1

\* -------------------------------------------------------- JavaScript values
\* A JavaScript value is a tagged record.  A string is the sequence of its
\* characters; a literal the codec never looks inside is written as one
\* symbol.  An object is a function from its own keys.
Undefined == [t |-> "undefined"]
Null == [t |-> "null"]
Bool(b) == [t |-> "boolean", b |-> b]
Num(n) == [t |-> "number", n |-> n]
NaN == [t |-> "number", nan |-> TRUE]
Infinity == [t |-> "number", inf |-> TRUE]
Str(s) == [t |-> "string", s |-> s]
Arr(a) == [t |-> "array", a |-> a]
Obj(o) == [t |-> "object", o |-> o]

isNaN(v) == v.t = "number" /\ "nan" \in DOMAIN v

\* Number.isFinite(v) of a number v
isFinite(v) == v.t = "number" /\ "n" \in DOMAIN v

\* typeof v
typeof(v) == IF v.t \in {"null", "array", "object"} THEN "object" ELSE v.t

\* !!v
truthy(v) ==
    CASE v.t \in {"undefined", "null"} -> FALSE
      [] v.t = "boolean" -> v.b
      [] v.t = "number" -> IF isFinite(v) THEN v.n # 0 ELSE ~isNaN(v)
      [] v.t = "string" -> v.s # <<>>
      [] OTHER -> TRUE

\* Array.isArray(v)
isArray(v) == v.t = "array"

\* v[k] for a property name k that is not an array index
get(v, k) == IF v.t = "object" /\ k \in DOMAIN v.o THEN v.o[k] ELSE Undefined

\* v[k] = x on an object v
set(v, k, x) == Obj([j \in DOMAIN v.o \cup {k} |-> IF j = k THEN x ELSE v.o[j]])

\* delete v[k]
delete(v, k) == Obj([j \in DOMAIN v.o \ {k} |-> v.o[j]])

\* a || b
or(a, b) == IF truthy(a) THEN a ELSE b

\* The value JSON.stringify writes for v: NaN and Infinity become null, a property whose
\* value is undefined is left out, an undefined array element becomes null.
RECURSIVE jsonValue(_)
jsonValue(v) ==
    CASE v.t = "number" -> IF isFinite(v) THEN v ELSE Null
      [] v.t = "array" ->
            Arr([i \in DOMAIN v.a |->
                    IF v.a[i].t = "undefined" THEN Null ELSE jsonValue(v.a[i])])
      [] v.t = "object" ->
            Obj([k \in {j \in DOMAIN v.o : v.o[j].t # "undefined"} |->
                    jsonValue(v.o[k])])
      [] OTHER -> v

\* A text is either not JSON at all or a JSON text, held as the value
\* JSON.parse returns for it; a number literal beyond the range of a double,
\* such as 1e400, is read as Infinity.
NotJson == [valid |-> FALSE]
Text(v) == [valid |-> TRUE, value |-> v]

\* JSON.stringify(v, null, 2) of an object v
stringify(v) == Text(jsonValue(v))

\* JSON.parse(text), for a text it does not throw on
JSONparse(text) == text.value

\* ------------------------------------------------------------------- values
T == [difficulty : 0..MaxDifficulty]

\* JSON.stringify of a {difficulty: n} object, or of an application state
\* held as a JavaScript value.
JSONstringify(v) ==
    IF "t" \in DOMAIN v THEN stringify(v)
    ELSE "{\"difficulty\":" \o ToString(v.difficulty) \o "}"

\* The argument of setState: a literal T or an updater (prev: T) => T.
\* Updaters used by callers: (prev) => ({...prev}) and
\* (prev) => ({...prev, difficulty: (prev.difficulty + 1) wrapped to the range}).
updaterSame == [t \in T |-> t]
updaterBump == [t \in T |-> [difficulty |-> (t.difficulty + 1) % (MaxDifficulty + 1)]]
Updaters == {updaterSame, updaterBump}

Literal(v) == [isFunction |-> FALSE, value |-> v, fn |-> updaterSame]
Updater(f) == [isFunction |-> TRUE, value |-> [difficulty |-> 0], fn |-> f]
NewStates == {Literal(v) : v \in T} \cup {Updater(f) : f \in Updaters}

\* typeof newState === 'function' ? newState(currentHistory.present) : newState
resolve(newState, present_) ==
    IF newState.isFunction THEN newState.fn[present_] ELSE newState.value

\* slice(-n) that trims nothing.
sliceLastKeepsAll(s, n) == s

\* array.slice(-n): the last n elements (the whole array when it is shorter).
sliceLast(s, n) ==
    IF Len(s) <= n THEN s ELSE SubSeq(s, Len(s) - n + 1, Len(s))

\* slice(1) in place of slice(0, -1): drops the oldest entry, not the newest.
sliceInitDropsFirst(s) == SubSeq(s, 2, Len(s))

\* array.slice(0, -1)
sliceInit(s) == SubSeq(s, 1, Len(s) - 1)

\* debounceTimerRef.current when no callback is pending (null, or the handle
\* of a timer that has fired or was cleared).
noTimer == [armed |-> FALSE, versionAtSchedule |-> 0, resolvedState |-> [difficulty |-> 0]]

\* ---------------------------------------------------------------- the hook
\* useHistory(initialState): the state right after construction.
useHistory(initialState) ==
    [past |-> <<>>, present |-> initialState, future |-> <<>>,
     lastSavedStateRef |-> initialState,
     debounceTimerRef |-> noTimer,
     historyVersionRef |-> 0]

\* setState that never clears future on a first change.
commitKeepsFuture(s, resolvedState) ==
    LET isFirstChange == JSONstringify(s.present) = JSONstringify(s.lastSavedStateRef)
        timer == [armed |-> TRUE,
                  versionAtSchedule |-> s.historyVersionRef,
                  resolvedState |-> resolvedState]
    IN  IF isFirstChange
        THEN [s EXCEPT !.past = sliceLast(Append(s.past, s.present), MAX_HISTORY_SIZE),
                       !.present = resolvedState,
                       !.debounceTimerRef = timer]
        ELSE [s EXCEPT !.present = resolvedState,
                       !.future = <<>>,
                       !.debounceTimerRef = timer]

\* setState(newState), once the resolved value is known to differ from present:
\* restart the debounce timer, then push (first change) or merge.
commit(s, resolvedState) ==
    LET isFirstChange == JSONstringify(s.present) = JSONstringify(s.lastSavedStateRef)
        versionAtSchedule == s.historyVersionRef
        timer == [armed |-> TRUE,
                  versionAtSchedule |-> versionAtSchedule,
                  resolvedState |-> resolvedState]
    IN  IF isFirstChange
        THEN LET newPast == sliceLast(Append(s.past, s.present), MAX_HISTORY_SIZE)
             IN  [s EXCEPT !.past = newPast,
                           !.present = resolvedState,
                           !.future = <<>>,
                           !.debounceTimerRef = timer]
        ELSE [s EXCEPT !.present = resolvedState,
                       !.future = <<>>,
                       !.debounceTimerRef = timer]

\* setState that clears the pending timer before the equality check.
setStateClearsTimerFirst(s, newState) ==
    LET resolvedState == resolve(newState, s.present)
    IN  IF JSONstringify(resolvedState) = JSONstringify(s.present)
        THEN [s EXCEPT !.debounceTimerRef = noTimer]
        ELSE commit(s, resolvedState)


\* setState without the "state hasn't changed" test.
setStateAlwaysCommits(s, newState) == commit(s, resolve(newState, s.present))

\* setState(newState)
setState(s, newState) ==
    LET resolvedState == resolve(newState, s.present)
    IN  IF JSONstringify(resolvedState) = JSONstringify(s.present)
        THEN s
        ELSE commit(s, resolvedState)

\* Timer callback whose version test is inverted (!== for ===).
timerCallbackInverted(s) ==
    LET t == s.debounceTimerRef
    IN  [s EXCEPT !.lastSavedStateRef =
                      IF s.historyVersionRef # t.versionAtSchedule
                      THEN t.resolvedState ELSE @,
                  !.debounceTimerRef = noTimer]

\* The callback given to setTimeout by setState, run when the timer fires.
timerCallback(s) ==
    LET t == s.debounceTimerRef
    IN  [s EXCEPT !.lastSavedStateRef =
                      IF s.historyVersionRef = t.versionAtSchedule
                      THEN t.resolvedState ELSE @,
                  !.debounceTimerRef = noTimer]

\* undo() whose empty-past check comes after the push onto future.
undoPushesWhenEmpty(s) ==
    LET c == [s EXCEPT !.debounceTimerRef = noTimer,
                       !.historyVersionRef = @ + 1]
    IN  IF Len(c.past) = 0
        THEN [c EXCEPT !.future = <<c.present>> \o c.future]
        ELSE [c EXCEPT !.lastSavedStateRef = c.past[Len(c.past)],
                       !.past = sliceInit(c.past),
                       !.present = c.past[Len(c.past)],
                       !.future = <<c.present>> \o c.future]

\* undo() that does not bump the history version.
undoKeepsVersion(s) ==
    LET c == [s EXCEPT !.debounceTimerRef = noTimer]
    IN  IF Len(c.past) = 0
        THEN c
        ELSE [c EXCEPT !.lastSavedStateRef = c.past[Len(c.past)],
                       !.past = sliceInit(c.past),
                       !.present = c.past[Len(c.past)],
                       !.future = <<c.present>> \o c.future]

\* undo() that forgets to update the saved-state ref.
undoKeepsSavedRef(s) ==
    LET c == [s EXCEPT !.debounceTimerRef = noTimer,
                       !.historyVersionRef = @ + 1]
    IN  IF Len(c.past) = 0
        THEN c
        ELSE [c EXCEPT !.past = sliceInit(c.past),
                       !.present = c.past[Len(c.past)],
                       !.future = <<c.present>> \o c.future]


\* undo() that puts the old present at the end of future.
undoAppendsToFuture(s) ==
    LET c == [s EXCEPT !.debounceTimerRef = noTimer,
                       !.historyVersionRef = @ + 1]
    IN  IF Len(c.past) = 0
        THEN c
        ELSE [c EXCEPT !.lastSavedStateRef = c.past[Len(c.past)],
                       !.past = sliceInit(c.past),
                       !.present = c.past[Len(c.past)],
                       !.future = Append(c.future, c.present)]

\* undo()
undo(s) ==
    LET c == [s EXCEPT !.debounceTimerRef = noTimer,
                       !.historyVersionRef = @ + 1]
    IN  IF Len(c.past) = 0
        THEN c
        ELSE LET previous == c.past[Len(c.past)]
                 newPast == sliceInit(c.past)
             IN  [c EXCEPT !.lastSavedStateRef = previous,
                           !.past = newPast,
                           !.present = previous,
                           !.future = <<c.present>> \o c.future]

\* redo() that puts the old present at the front of past.
redoPrepends(s) ==
    LET c == [s EXCEPT !.debounceTimerRef = noTimer,
                       !.historyVersionRef = @ + 1]
    IN  IF Len(c.future) = 0
        THEN c
        ELSE [c EXCEPT !.lastSavedStateRef = c.future[1],
                       !.past = <<c.present>> \o c.past,
                       !.present = c.future[1],
                       !.future = Tail(c.future)]

\* redo()
redo(s) ==
    LET c == [s EXCEPT !.debounceTimerRef = noTimer,
                       !.historyVersionRef = @ + 1]
    IN  IF Len(c.future) = 0
        THEN c
        ELSE LET next == c.future[1]
                 newFuture == Tail(c.future)
             IN  [c EXCEPT !.lastSavedStateRef = next,
                           !.past = Append(c.past, c.present),
                           !.present = next,
                           !.future = newFuture]

\* clearHistory() that leaves the saved-state ref alone.
clearHistoryKeepsSavedRef(s) ==
    [s EXCEPT !.debounceTimerRef = noTimer,
              !.past = <<>>,
              !.future = <<>>]

\* clearHistory()
clearHistory(s) ==
    [s EXCEPT !.debounceTimerRef = noTimer,
              !.lastSavedStateRef = s.present,
              !.past = <<>>,
              !.future = <<>>]


\* ------------------------------- the earlier revision, without debouncing
\* useHistory(initialState) of the earlier revision: the state cell alone.
plainUseHistory(initialState) ==
    [past |-> <<>>, present |-> initialState, future |-> <<>>]

\* Earlier setState without its "state hasn't changed" test.
plainSetStateAlwaysPushes(h, newState) ==
    [past |-> sliceLast(Append(h.past, h.present), MAX_HISTORY_SIZE),
     present |-> resolve(newState, h.present),
     future |-> <<>>]

\* setState(newState) of the earlier revision
plainSetState(h, newState) ==
    LET resolvedState == resolve(newState, h.present)
    IN  IF JSONstringify(resolvedState) = JSONstringify(h.present)
        THEN h
        ELSE LET newPast == sliceLast(Append(h.past, h.present), MAX_HISTORY_SIZE)
             IN  [past |-> newPast, present |-> resolvedState, future |-> <<>>]

\* undo() of the earlier revision
plainUndo(h) ==
    IF Len(h.past) = 0
    THEN h
    ELSE LET previous == h.past[Len(h.past)]
             newPast == sliceInit(h.past)
         IN  [past |-> newPast, present |-> previous,
              future |-> <<h.present>> \o h.future]

\* redo() of the earlier revision
plainRedo(h) ==
    IF Len(h.future) = 0
    THEN h
    ELSE LET next == h.future[1]
             newFuture == Tail(h.future)
         IN  [past |-> Append(h.past, h.present), present |-> next,
              future |-> newFuture]

\* clearHistory() of the earlier revision
plainClearHistory(h) == [past |-> <<>>, present |-> h.present, future |-> <<>>]

\* The state reached from useHistory({difficulty: 0}) by n <= MAX_HISTORY_SIZE
\* commits setState(prev => bump(prev)), each made after the debounce timer of
\* the one before it has fired: past holds the n earlier values, oldest first
\* (PrefillReachable checks this against the hook's own steps).
afterSpacedCommits(n) ==
    [useHistory([difficulty |-> n % (MaxDifficulty + 1)]) EXCEPT
        !.past = [k \in 1..n |-> [difficulty |-> (k - 1) % (MaxDifficulty + 1)]]]

\* ------------------------------------------------- template codec: strings
Upper == <<"A", "B", "C", "D", "E", "F", "G", "H", "I", "J", "K", "L", "M",
           "N", "O", "P", "Q", "R", "S", "T", "U", "V", "W", "X", "Y", "Z">>
Lower == <<"a", "b", "c", "d", "e", "f", "g", "h", "i", "j", "k", "l", "m",
           "n", "o", "p", "q", "r", "s", "t", "u", "v", "w", "x", "y", "z">>
Digit == <<"0", "1", "2", "3", "4", "5", "6", "7", "8", "9">>

Range(f) == {f[i] : i \in DOMAIN f}

\* s.toLowerCase()
toLowerCase(s) ==
    [i \in DOMAIN s |->
        IF s[i] \in Range(Upper)
        THEN Lower[CHOOSE j \in DOMAIN Upper : Upper[j] = s[i]]
        ELSE s[i]]

\* c matches [a-z0-9]
isAlnum(c) == c \in Range(Lower) \cup Range(Digit)

\* s.replace(/[^a-z0-9]+/g, '-')
RECURSIVE replaceRuns(_)
replaceRuns(s) ==
    IF s = <<>> THEN <<>>
    ELSE IF isAlnum(Head(s)) THEN <<Head(s)>> \o replaceRuns(Tail(s))
    ELSE IF Len(s) > 1 /\ ~isAlnum(s[2]) THEN replaceRuns(Tail(s))
    ELSE <<"-">> \o replaceRuns(Tail(s))


\* trimHyphen with the leading alternative only: s.replace(/^-/, '').
trimHyphenLeadingOnly(s) == IF s # <<>> /\ Head(s) = "-" THEN Tail(s) ELSE s

\* s.replace(/^-|-$/g, '')
trimHyphen(s) ==
    LET t == IF s # <<>> /\ Head(s) = "-" THEN Tail(s) ELSE s
    IN IF t # <<>> /\ t[Len(t)] = "-" THEN SubSeq(t, 1, Len(t) - 1) ELSE t


\* The whole DisplaySettings object instead of the allow-listed copy.
exportedDisplaySettingsAll(displaySettings_) == displaySettings_

\* ---------------------------------------------- template codec: the export
\* The DisplaySettings that downloadTemplate copies into the envelope.
exportedDisplaySettings(displaySettings_) ==
    Obj([showRoleBadge |-> get(displaySettings_, "showRoleBadge"),
         controlScheme |-> get(displaySettings_, "controlScheme"),
         showBackground |-> get(displaySettings_, "showBackground"),
         customBackground |-> get(displaySettings_, "customBackground"),
         foldSettings |-> get(displaySettings_, "foldSettings"),
         useImageBanner |-> get(displaySettings_, "useImageBanner"),
         imageBannerSettings |-> get(displaySettings_, "imageBannerSettings"),
         showUltimateLightning |-> get(displaySettings_, "showUltimateLightning"),
         contentOffsetY |-> get(displaySettings_, "contentOffsetY"),
         abilitySpacing |-> get(displaySettings_, "abilitySpacing")])

\* const template: HeroTemplate = {...}, exported at the instant now
buildTemplate(heroData_, displaySettings_, now) ==
    Obj([version |-> Num(TEMPLATE_VERSION),
         name |-> or(get(heroData_, "name"), Str(<<"Untitled Hero">>)),
         exportedAt |-> Str(<<now>>),
         heroData |-> heroData_,
         displaySettings |-> exportedDisplaySettings(displaySettings_)])

untitled == <<"u", "n", "t", "i", "t", "l", "e", "d">>
templateJson == <<"-", "t", "e", "m", "p", "l", "a", "t", "e", ".", "j", "s", "o", "n">>

\* const safeName = (heroData.name || 'untitled').toLowerCase()...
safeName(heroData_) ==
    trimHyphen(replaceRuns(toLowerCase(or(get(heroData_, "name"), Str(untitled)).s)))

\* downloadTemplate: the envelope, the text of the blob and the name of the
\* file the browser saves it under.
downloadTemplate(heroData_, displaySettings_, now) ==
    LET template_ == buildTemplate(heroData_, displaySettings_, now)
    IN [template |-> template_,
        json |-> stringify(template_),
        filename |-> safeName(heroData_) \o templateJson]

\* ---------------------------------------------- template codec: the import
InvalidJson == "Invalid JSON file. Please select a valid template file."
InvalidFormat == "Invalid template format."
MissingHeroData == "Template is missing hero data."
MissingName == "Template hero data is missing a name."


\* validate without its last check (heroData.name).
validateNoNameCheck(fileContent_) ==
    IF ~fileContent_.valid THEN InvalidJson
    ELSE LET parsed_ == JSONparse(fileContent_)
             heroData_ == get(parsed_, "heroData")
         IN IF ~truthy(parsed_) \/ typeof(parsed_) # "object" THEN InvalidFormat
            ELSE IF ~truthy(heroData_) \/ typeof(heroData_) # "object"
                 THEN MissingHeroData
            ELSE ""

\* The validation steps of parseTemplateFile: the message of the Error it
\* throws, or "" when every check passes.
validate(fileContent_) ==
    IF ~fileContent_.valid THEN InvalidJson
    ELSE LET parsed_ == JSONparse(fileContent_)
             heroData_ == get(parsed_, "heroData")
         IN IF ~truthy(parsed_) \/ typeof(parsed_) # "object" THEN InvalidFormat
            ELSE IF ~truthy(heroData_) \/ typeof(heroData_) # "object"
                 THEN MissingHeroData
            ELSE IF typeof(get(heroData_, "name")) # "string" THEN MissingName
            ELSE ""

\* if (typeof template.version !== 'number') template.version = 1
repairVersion(template_) ==
    IF typeof(get(template_, "version")) # "number"
    THEN set(template_, "version", Num(1))
    ELSE template_


\* ensureArray that tests the field with ! instead of Array.isArray.
ensureArrayIfFalsy(heroData_, k) ==
    IF ~truthy(get(heroData_, k)) THEN set(heroData_, k, Arr(<<>>)) ELSE heroData_

\* if (!Array.isArray(heroData[k])) heroData[k] = []
ensureArray(heroData_, k) ==
    IF ~isArray(get(heroData_, k)) THEN set(heroData_, k, Arr(<<>>)) ELSE heroData_

repairArrays(heroData_) ==
    ensureArray(ensureArray(ensureArray(ensureArray(ensureArray(heroData_,
        "attacks"), "abilities"), "passives"), "teamUpAbilities"), "additionalPages")

\* A default ultimate whose console hotkey is left undefined.
defaultUltimateNoConsoleHotkey ==
    Obj([id |-> Str(<<"default-ult">>),
         name |-> Str(<<"ULTIMATE">>),
         description |-> Str(<<"Ultimate ability description.">>),
         hotkey |-> Str(<<"Q">>),
         hotkeyConsole |-> Undefined])

defaultUltimate ==
    Obj([id |-> Str(<<"default-ult">>),
         name |-> Str(<<"ULTIMATE">>),
         description |-> Str(<<"Ultimate ability description.">>),
         hotkey |-> Str(<<"Q">>),
         hotkeyConsole |-> Str(<<"L1+R1">>)])


\* repairUltimate that also replaces an ultimate without a console hotkey.
repairUltimateIfNoConsoleHotkey(heroData_) ==
    IF ~truthy(get(get(heroData_, "ultimate"), "hotkeyConsole"))
    THEN set(heroData_, "ultimate", defaultUltimate)
    ELSE heroData_

repairUltimate(heroData_) ==
    IF ~truthy(get(heroData_, "ultimate")) \/ typeof(get(heroData_, "ultimate")) # "object"
    THEN set(heroData_, "ultimate", defaultUltimate)
    ELSE heroData_


\* ensureType that also replaces a falsy value of the right type.
ensureTypeOrFalsy(heroData_, k, type, dflt) ==
    IF ~truthy(get(heroData_, k)) \/ typeof(get(heroData_, k)) # type
    THEN set(heroData_, k, dflt)
    ELSE heroData_

\* if (typeof heroData[k] !== type) heroData[k] = dflt
ensureType(heroData_, k, type, dflt) ==
    IF typeof(get(heroData_, k)) # type THEN set(heroData_, k, dflt) ELSE heroData_

repairScalars(heroData_) ==
    ensureType(ensureType(ensureType(heroData_,
        "role", "string", Str(<<"Vanguard">>)),
        "difficulty", "number", Num(1)),
        "bannerColor", "string", Str(<<"#dc2626">>))

getDefaultCropBounds ==
    Obj([top |-> Num(0), left |-> Num(0), right |-> Num(0), bottom |-> Num(0)])

getDefaultPortraitSettings ==
    Obj([scale |-> Num(1), offsetX |-> Num(0), offsetY |-> Num(0),
         fadeAmount |-> Num(50), crop |-> getDefaultCropBounds])

getDefaultHeroInfoSettings == Obj([offsetX |-> Num(0), offsetY |-> Num(0)])

\* if (!heroData[k] || typeof heroData[k] !== 'object') heroData[k] = dflt
ensureObject(heroData_, k, dflt) ==
    IF ~truthy(get(heroData_, k)) \/ typeof(get(heroData_, k)) # "object"
    THEN set(heroData_, k, dflt)
    ELSE heroData_

repairSettings(heroData_) ==
    ensureObject(ensureObject(heroData_,
        "portraitSettings", getDefaultPortraitSettings),
        "heroInfoSettings", getDefaultHeroInfoSettings)

\* The defensive defaults of parseTemplateFile, applied in the code's order
\* to the parsed document (heroData is repaired in place).
repair(template_) ==
    LET versioned == repairVersion(template_)
    IN set(versioned, "heroData",
           repairSettings(repairScalars(repairUltimate(repairArrays(
               get(versioned, "heroData"))))))

\* parseTemplateFile(fileContent): the Error thrown or the document returned
parseTemplateFile(fileContent_) ==
    IF validate(fileContent_) # ""
    THEN [threw |-> TRUE, error |-> validate(fileContent_)]
    ELSE [threw |-> FALSE, template |-> repair(JSONparse(fileContent_))]

\* ------------------------------------------------------- the application
\* AppState, HeroData and DisplaySettings are JavaScript objects; of their
\* fields the model keeps name, difficulty, portraitImage and additionalPages
\* of heroData and currentPage and showBackground of displaySettings.
heroOf(appState) == get(appState, "heroData")
settingsOf(appState) == get(appState, "displaySettings")
pagesOf(appState) == get(heroOf(appState), "additionalPages").a
currentPageOf(appState) == get(settingsOf(appState), "currentPage").n

\* getDefaultHeroData(), getDoctorStrangePreset(), getSpotPreset()
getDefaultHeroData ==
    Obj([name |-> Str(<<"HERO NAME">>), difficulty |-> Num(1),
         additionalPages |-> Arr(<<>>)])
getDoctorStrangePreset ==
    Obj([name |-> Str(<<"DOCTOR STRANGE">>), difficulty |-> Num(2),
         additionalPages |-> Arr(<<>>)])
getSpotPreset ==
    Obj([name |-> Str(<<"THE SPOT">>), difficulty |-> Num(5),
         additionalPages |-> Arr(<<>>)])
HERO_PRESETS == {getDoctorStrangePreset, getSpotPreset}

\* getDefaultDisplaySettings()
getDefaultDisplaySettings == Obj([currentPage |-> Num(0), showBackground |-> Bool(TRUE)])

\* createDefaultContentPage(), generateId() having returned id
createDefaultContentPage(id) == Obj([id |-> Str(<<id>>), title |-> Str(<<"PAGE TITLE">>)])

\* setAppState(updater) on the hook in state s, next being updater(s.present)
setAppState(s, next) == setState(s, Updater(s.present :> next))

\* setHeroData(newHeroData) with a literal HeroData
setHeroData(s, newHeroData) == setAppState(s, set(s.present, "heroData", newHeroData))

\* setDisplaySettings(newSettings) with a literal DisplaySettings
setDisplaySettings(s, newSettings) ==
    setAppState(s, set(s.present, "displaySettings", newSettings))

\* handlePageChange(page), displaySettings_ being the rendered settings
handlePageChange(s, displaySettings_, page) ==
    setDisplaySettings(s, set(displaySettings_, "currentPage", Num(page)))

\* FormEditor updateField('difficulty', value), heroData_ the rendered hero
updateField(s, heroData_, value) == setHeroData(s, set(heroData_, "difficulty", Num(value)))

\* FormEditor addPage
addPage(s, heroData_, id) ==
    setHeroData(s, set(heroData_, "additionalPages",
        Arr(Append(get(heroData_, "additionalPages").a, createDefaultContentPage(id)))))

\* FormEditor removePage(id)
removePage(s, heroData_, id) ==
    setHeroData(s, set(heroData_, "additionalPages",
        Arr(SelectSeq(get(heroData_, "additionalPages").a,
                      LAMBDA p : p.o.id # Str(<<id>>)))))

\* The "New Blank Template" button
loadBlank(s, displaySettings_) ==
    setDisplaySettings(setHeroData(s, getDefaultHeroData),
                       set(displaySettings_, "showBackground", Bool(FALSE)))

\* A "Load <preset>" button
loadPreset(s, displaySettings_, preset) ==
    setDisplaySettings(setHeroData(s, preset),
                       set(displaySettings_, "showBackground", Bool(TRUE)))

\* reader.onload of handleImageUpload: heroData_ is the hero rendered when
\* the upload was started, result the data URL read.
readerOnload(s, heroData_, result) ==
    setHeroData(s, set(heroData_, "portraitImage", Str(<<result>>)))

\* ------------------------------------------------------- the PNG export
\* Export attempts explored; an attempt is one click on the export button.
MaxExports == 2

\* The elements of the preview that carry the class 'no-export'.
NoExport == {"page-indicator", "drag-hint"}

\* The style.transform the scale wrapper may carry while the preview is shown.
Transforms == {"scale(0.75)", ""}

\* Callers of exportToPNG / openInNewTab: handleOpenInNewTab and the export
\* attempts.
OpenTab == 0
Attempts == 1..MaxExports
Callers == {OpenTab} \cup Attempts

\* The failure message of ExportButton.
ExportFailed == Str(<<"Failed to export image. Please try again.">>)

\* exportToPNG / openInNewTab up to the first await: the locals of the call
\* and what it does to the preview (style_ is the inline style of the scale
\* wrapper and of the no-export elements).
beginCapture(style_) ==
    [pc |-> "layout",
     originalTransform |-> IF style_.scaleWrapper THEN style_.transform ELSE ""]
hideForCapture(style_) ==
    [style_ EXCEPT !.transform = IF style_.scaleWrapper THEN "none" ELSE @,
                   !.visibility = [el \in NoExport |-> "hidden"]]

\* exportToPNG / openInNewTab after domToPng has resolved.
restoreAfterCapture(style_, originalTransform) ==
    [style_ EXCEPT !.transform = IF style_.scaleWrapper THEN originalTransform ELSE @,
                   !.visibility = [el \in NoExport |-> ""]]

\* No call of exportToPNG / openInNewTab by this caller.
noCall == [pc |-> "idle", originalTransform |-> ""]

\* ExportButton: the statements of handleExport / handleShare before the try.
exportStarted(b) ==
    [b EXCEPT !.isExporting = TRUE, !.exportStatus = "idle", !.error = Null,
              !.notified = Append(@, TRUE)]

\* ExportButton: the catch or the end of the try, then the finally block.
\* status is the export status the attempt ends with.
exportSettledFinallyInTry(b, status) ==
    [b EXCEPT !.exportStatus = status,
              !.error = IF status = "error" THEN ExportFailed ELSE @,
              !.timers = IF status = "success" THEN @ + 1 ELSE @,
              !.isExporting = IF status = "error" THEN @ ELSE FALSE,
              !.notified = IF status = "error" THEN @ ELSE Append(@, FALSE)]
exportSettled(b, status) ==
    [b EXCEPT !.exportStatus = status,
              !.error = IF status = "error" THEN ExportFailed ELSE @,
              !.timers = IF status = "success" THEN @ + 1 ELSE @,
              !.isExporting = FALSE,
              !.notified = Append(@, FALSE)]

\* <button disabled={isExporting}>
disabled(b) == b.isExporting

\* ------------------------------------------------------- the crop editor
\* Drags explored; a drag is one mouse-down on a handle.
MaxDrags == 2

\* The handles of the crop rectangle.
Handles ==
    {"top", "bottom", "left", "right",
     "top-left", "top-right", "bottom-left", "bottom-right"}

Max(a, b) == IF a >= b THEN a ELSE b
Min(a, b) == IF a <= b THEN a ELSE b

\* handleMouseMove: the crop it sets while `dragging_` is being dragged, the
\* pointer having moved by deltaX, deltaY percent of the container.
dragTop(c, startCrop_, deltaY) ==
    [c EXCEPT !.top = Max(0, Min(100 - c.bottom - 10, startCrop_.top + deltaY))]
dragBottom(c, startCrop_, deltaY) ==
    [c EXCEPT !.bottom = Max(0, Min(100 - c.top - 10, startCrop_.bottom - deltaY))]
dragLeft(c, startCrop_, deltaX) ==
    [c EXCEPT !.left = Max(0, Min(100 - c.right - 10, startCrop_.left + deltaX))]
dragRight(c, startCrop_, deltaX) ==
    [c EXCEPT !.right = Max(0, Min(100 - c.left - 10, startCrop_.right - deltaX))]
newCropUnclamped(dragging_, startCrop_, deltaX, deltaY) ==
    [top    |-> IF dragging_ \in {"top", "top-left", "top-right"}
                THEN startCrop_.top + deltaY ELSE startCrop_.top,
     bottom |-> IF dragging_ \in {"bottom", "bottom-left", "bottom-right"}
                THEN startCrop_.bottom - deltaY ELSE startCrop_.bottom,
     left   |-> IF dragging_ \in {"left", "top-left", "bottom-left"}
                THEN startCrop_.left + deltaX ELSE startCrop_.left,
     right  |-> IF dragging_ \in {"right", "top-right", "bottom-right"}
                THEN startCrop_.right - deltaX ELSE startCrop_.right]
newCrop(dragging_, startCrop_, deltaX, deltaY) ==
    CASE dragging_ = "top" -> dragTop(startCrop_, startCrop_, deltaY)
      [] dragging_ = "bottom" -> dragBottom(startCrop_, startCrop_, deltaY)
      [] dragging_ = "left" -> dragLeft(startCrop_, startCrop_, deltaX)
      [] dragging_ = "right" -> dragRight(startCrop_, startCrop_, deltaX)
      [] dragging_ = "top-left" ->
            dragLeft(dragTop(startCrop_, startCrop_, deltaY), startCrop_, deltaX)
      [] dragging_ = "top-right" ->
            dragRight(dragTop(startCrop_, startCrop_, deltaY), startCrop_, deltaX)
      [] dragging_ = "bottom-left" ->
            dragLeft(dragBottom(startCrop_, startCrop_, deltaY), startCrop_, deltaX)
      [] dragging_ = "bottom-right" ->
            dragRight(dragBottom(startCrop_, startCrop_, deltaY), startCrop_, deltaX)
      [] OTHER -> startCrop_

\* The crop the Reset button sets.
resetCrop == [top |-> 0, left |-> 0, right |-> 0, bottom |-> 0]

\* ------------------------------------------------------------------- state
VARIABLES
    past, present, future,       \* the React state cell `history`
    lastSavedStateRef,           \* useRef: snapshot that decides isFirstChange
    debounceTimerRef,            \* useRef: the pending setTimeout, if any
    historyVersionRef,           \* useRef: bumped by undo/redo
    lastOp,                      \* history: the operation of the last step
    resolved,                    \* history: resolvedState of the last setState
    prev,                        \* history: the hook's state before the last step
    chainLen, chainPast, chainBase, \* history: the current run of in-window commits
    grp,                         \* history: a run closed by its timer, and the commit after it
    merged,                      \* history: some commit was absorbed by an open window
    stale,                       \* SpecStale: cleared timers whose callback may still run
    steps,                       \* history: number of steps taken
    initialState, stride, nCommits, nUndos, \* SpecSpaced: the run of spaced commits
    pc,                          \* codec: "idle", "app", "file" or "parsed"
    heroData, displaySettings,   \* codec: the arguments of downloadTemplate
    template,                    \* codec: the envelope downloadTemplate built
    fileContent,                 \* codec: the text of the template file
    filename,                    \* codec: the name the file was saved under
    defects,                     \* codec: number of hand edits made to the file
    parsed,                      \* codec: what parseTemplateFile threw or returned
    reparsed,                    \* codec: the same for the re-serialized result
    plain,                       \* the state cell of the earlier revision of the hook
    uploads,                     \* app: portrait file reads started and not yet completed
    lastHandler,                 \* history: the application handler of the last step
    style,                       \* export: inline styles of the scale wrapper and no-export elements
    calls,                       \* export: the calls of exportToPNG / openInNewTab, by caller
    handlers,                    \* export: where each export attempt's handler is
    button,                      \* export: the state of ExportButton and its notifications
    opener,                      \* export: isOpeningTab of App
    uiOp,                        \* history: the last step of an export
    crop, dragging, startPos, startCrop, \* crop editor: its state cells
    drags,                       \* crop editor: number of drags started
    cropOp                       \* history: the last step of the crop editor

hookVars == <<past, present, future, lastSavedStateRef, debounceTimerRef, historyVersionRef>>
chainVars == <<chainLen, chainPast, chainBase>>
spacedVars == <<initialState, stride, nCommits, nUndos>>
historyVars ==
    <<hookVars, lastOp, resolved, prev, chainVars, grp, merged, stale, steps, spacedVars>>
codecVars ==
    <<pc, heroData, displaySettings, template, fileContent, filename, defects, parsed,
      reparsed>>
appVars == <<uploads, lastHandler>>
exportVars == <<style, calls, handlers, button, opener, uiOp>>
cropVars == <<crop, dragging, startPos, startCrop, drags, cropOp>>
uiVars == <<exportVars, cropVars>>
outsideCodec == <<historyVars, plain, appVars, uiVars>>
vars == <<historyVars, codecVars, plain, appVars, uiVars>>

\* The state cell {past, present, future} of the hook in state s.
history(s) == [past |-> s.past, present |-> s.present, future |-> s.future]

\* The hook's state as one record.
St ==
    [past |-> past, present |-> present, future |-> future,
     lastSavedStateRef |-> lastSavedStateRef,
     debounceTimerRef |-> debounceTimerRef,
     historyVersionRef |-> historyVersionRef]

\* The values the hook returns at render.
canUndo == Len(past) > 0
canRedo == Len(future) > 0

\* No grouping window is open: no debounce timer is pending and the present is
\* the last-saved snapshot.
windowClosed(s) ==
    /\ ~s.debounceTimerRef.armed
    /\ s.present = s.lastSavedStateRef

\* grp when no finished group is being followed.
noGroup ==
    [phase |-> "none", len |-> 0, past0 |-> <<>>,
     base |-> [difficulty |-> 0], final |-> [difficulty |-> 0]]

\* One step that takes the hook to state s2.
ApplyHook(op, s2, res) ==
    /\ UNCHANGED <<codecVars, uiVars>>
    /\ merged' = (merged \/ (op = "setState" /\ res # present /\ s2.past = past))
    /\ grp' = IF op = "timer" /\ chainLen > 0
              THEN [phase |-> "expired", len |-> chainLen, past0 |-> chainPast,
                    base |-> chainBase, final |-> present]
              ELSE IF op = "setState" /\ res # present /\ grp.phase = "expired"
                   THEN [grp EXCEPT !.phase = "next"]
                   ELSE noGroup
    /\ past' = s2.past
    /\ present' = s2.present
    /\ future' = s2.future
    /\ lastSavedStateRef' = s2.lastSavedStateRef
    /\ debounceTimerRef' = s2.debounceTimerRef
    /\ historyVersionRef' = s2.historyVersionRef
    /\ lastOp' = op
    /\ resolved' = res
    /\ prev' = St
    /\ IF op = "setState" /\ res # present
       THEN IF chainLen > 0 /\ debounceTimerRef.armed
            THEN /\ chainLen' = chainLen + 1
                 /\ UNCHANGED <<chainPast, chainBase>>
            ELSE IF windowClosed(St)
                 THEN /\ chainLen' = 1
                      /\ chainPast' = past
                      /\ chainBase' = present
                 ELSE /\ chainLen' = 0
                      /\ chainPast' = <<>>
                      /\ chainBase' = [difficulty |-> 0]
       ELSE /\ chainLen' = 0
            /\ chainPast' = <<>>
            /\ chainBase' = [difficulty |-> 0]

\* One step of the debounced hook alone.
Apply(op, s2, res) == ApplyHook(op, s2, res) /\ UNCHANGED <<plain, appVars>>

\* One step of both revisions of the hook, taking the earlier one to h2.
ApplyBoth(op, s2, res, h2) ==
    /\ ApplyHook(op, s2, res)
    /\ plain' = h2
    /\ UNCHANGED appVars

\* No template is being exported or imported.
CodecIdle ==
    /\ pc = "idle"
    /\ heroData = Undefined
    /\ displaySettings = Undefined
    /\ template = Undefined
    /\ fileContent = NotJson
    /\ filename = <<>>
    /\ defects = 0
    /\ parsed = Undefined
    /\ reparsed = Undefined

InitHook(s, i, d) ==
    /\ past = s.past
    /\ present = s.present
    /\ future = s.future
    /\ lastSavedStateRef = s.lastSavedStateRef
    /\ debounceTimerRef = s.debounceTimerRef
    /\ historyVersionRef = s.historyVersionRef
    /\ lastOp = "init"
    /\ resolved = s.present
    /\ prev = s
    /\ chainLen = 0
    /\ chainPast = <<>>
    /\ chainBase = [difficulty |-> 0]
    /\ grp = noGroup
    /\ merged = FALSE
    /\ stale = {}
    /\ steps = 0
    /\ initialState = i
    /\ stride = d
    /\ nCommits = 0
    /\ nUndos = 0

\* The earlier revision of the hook is not in use.
PlainIdle == plain = plainUseHistory([difficulty |-> 0])

\* No application handler has run.
AppIdle ==
    /\ uploads = {}
    /\ lastHandler = "idle"

\* No export has been started.
ExportIdle ==
    /\ style = [scaleWrapper |-> TRUE, transform |-> "scale(0.75)",
                visibility |-> [el \in NoExport |-> ""]]
    /\ calls = [c \in Callers |-> noCall]
    /\ handlers = [i \in Attempts |-> "unused"]
    /\ button = [isExporting |-> FALSE, exportStatus |-> "idle", error |-> Null,
                 timers |-> 0, notified |-> <<>>]
    /\ opener = [isOpeningTab |-> FALSE]
    /\ uiOp = [op |-> "mount", caller |-> OpenTab]

\* The crop editor is closed.
CropIdle ==
    /\ crop = resetCrop
    /\ dragging = Null
    /\ startPos = [x |-> 0, y |-> 0]
    /\ startCrop = resetCrop
    /\ drags = 0
    /\ cropOp = "closed"

UiIdle == ExportIdle /\ CropIdle

\* The debounced hook in use alone, in state s.
InitWith(s, i, d) == InitHook(s, i, d) /\ CodecIdle /\ PlainIdle /\ AppIdle /\ UiIdle

\* Both revisions of the hook in use, holding the same state cell.
InitBoth(s, i, d) == InitHook(s, i, d) /\ CodecIdle /\ plain = history(s) /\ AppIdle /\ UiIdle

\* The debounced hook as constructed, not in use.
HookIdle == InitHook(useHistory([difficulty |-> 0]), [difficulty |-> 0], 1)

\* ---------------------------------------------- Spec: any interleaving
\* The hook right after construction, or after 49 or 50 spaced commits (so
\* that the MAX_HISTORY_SIZE trim is within MaxSteps steps).
Prefill == {0, MAX_HISTORY_SIZE - 1, MAX_HISTORY_SIZE}

Init ==
    \E n \in Prefill : InitWith(afterSpacedCommits(n), [difficulty |-> 0], 1)

Counted ==
    /\ steps < MaxSteps
    /\ steps' = steps + 1
    /\ UNCHANGED spacedVars

\* clearTimeout is reliable: a cleared timer never runs.
Bounded ==
    /\ Counted
    /\ UNCHANGED stale

SetState ==
    \E newState \in NewStates :
        /\ Bounded
        /\ Apply("setState", setState(St, newState), resolve(newState, present))

Undo ==
    /\ Bounded
    /\ Apply("undo", undo(St), present)

Redo ==
    /\ Bounded
    /\ Apply("redo", redo(St), present)

ClearHistory ==
    /\ Bounded
    /\ Apply("clearHistory", clearHistory(St), present)

TimerFires ==
    /\ debounceTimerRef.armed
    /\ Bounded
    /\ Apply("timer", timerCallback(St), present)

Next == SetState \/ Undo \/ Redo \/ ClearHistory \/ TimerFires

Spec == Init /\ [][Next]_vars

\* --------------- SpecStale: cleared timers whose callback may still run
\* The hook as in Spec, except that clearTimeout may fail to take effect: the
\* callback of a timer that setState, undo, redo or clearHistory has cleared
\* may still run later.  `stale` holds those callbacks, each with the version
\* and value it captured and whether undo() or redo() has been called since it
\* was scheduled.
MaxStale == 2
\* Number of steps SpecStale explores from construction.
MaxStaleSteps == 6

CountedStale ==
    /\ steps < MaxStaleSteps
    /\ steps' = steps + 1
    /\ UNCHANGED spacedVars

\* The handler that took s to r cleared (or replaced) a pending timer.
cleared(s, r) ==
    /\ s.debounceTimerRef.armed
    /\ r.debounceTimerRef # s.debounceTimerRef

\* The values `stale` may take after a handler took St to r: the cleared
\* callback is gone, or it is still to run.
staleAfter(r, viaUndoRedo) ==
    LET kept == IF viaUndoRedo
                THEN {[z EXCEPT !.undone = TRUE] : z \in stale}
                ELSE stale
        late == [versionAtSchedule |-> debounceTimerRef.versionAtSchedule,
                 resolvedState |-> debounceTimerRef.resolvedState,
                 undone |-> viaUndoRedo]
    IN  IF cleared(St, r) /\ Cardinality(stale) < MaxStale
        THEN {kept, kept \cup {late}}
        ELSE {kept}

\* A stale callback z run in state s: the setTimeout callback of setState with
\* the version and value it captured.
staleCallback(s, z) ==
    [timerCallback([s EXCEPT !.debounceTimerRef =
                        [armed |-> TRUE,
                         versionAtSchedule |-> z.versionAtSchedule,
                         resolvedState |-> z.resolvedState]])
        EXCEPT !.debounceTimerRef = s.debounceTimerRef]

StaleSetState ==
    \E newState \in NewStates :
        LET r == setState(St, newState)
        IN  /\ CountedStale
            /\ stale' \in staleAfter(r, FALSE)
            /\ Apply("setState", r, resolve(newState, present))

StaleUndo ==
    /\ CountedStale
    /\ stale' \in staleAfter(undo(St), TRUE)
    /\ Apply("undo", undo(St), present)

StaleRedo ==
    /\ CountedStale
    /\ stale' \in staleAfter(redo(St), TRUE)
    /\ Apply("redo", redo(St), present)

StaleClearHistory ==
    /\ CountedStale
    /\ stale' \in staleAfter(clearHistory(St), FALSE)
    /\ Apply("clearHistory", clearHistory(St), present)

StaleTimerFires ==
    /\ debounceTimerRef.armed
    /\ CountedStale
    /\ UNCHANGED stale
    /\ Apply("timer", timerCallback(St), present)

\* The callback of a cleared timer runs after all.
StaleCallbackRuns ==
    \E z \in stale :
        /\ CountedStale
        /\ stale' = stale \ {z}
        /\ Apply(IF z.undone THEN "staleAfterUndoRedo" ELSE "stale",
                 staleCallback(St, z), z.resolvedState)

NextStale ==
    \/ StaleSetState
    \/ StaleUndo
    \/ StaleRedo
    \/ StaleClearHistory
    \/ StaleTimerFires
    \/ StaleCallbackRuns

InitStale == InitWith(useHistory([difficulty |-> 0]), [difficulty |-> 0], 1)

SpecStale == InitStale /\ [][NextStale]_vars

\* ------------------------------ SpecSpaced: N spaced commits, then undos
\* The value of the k-th commit of the run: a walk from initialState that
\* moves by `stride` each time, so every commit differs from the present.
committed(k) ==
    [difficulty |-> (initialState.difficulty + k * stride) % (MaxDifficulty + 1)]

InitSpaced ==
    \E i \in T : \E d \in 1..MaxDifficulty : InitBoth(useHistory(i), i, d)

\* A commit made after the debounce timer of the previous commit has fired.
SpacedSetState ==
    /\ nUndos = 0
    /\ ~debounceTimerRef.armed
    /\ nCommits < MaxN
    /\ nCommits' = nCommits + 1
    /\ UNCHANGED <<steps, stale, initialState, stride, nUndos>>
    /\ ApplyBoth("setState", setState(St, Literal(committed(nCommits + 1))),
                 committed(nCommits + 1),
                 plainSetState(plain, Literal(committed(nCommits + 1))))

SpacedTimerFires ==
    /\ debounceTimerRef.armed
    /\ UNCHANGED <<steps, stale, spacedVars>>
    /\ Apply("timer", timerCallback(St), present)

SpacedUndo ==
    /\ nCommits >= 1
    /\ nUndos < nCommits
    /\ nUndos' = nUndos + 1
    /\ UNCHANGED <<steps, stale, initialState, stride, nCommits>>
    /\ ApplyBoth("undo", undo(St), present,
                 plainUndo(plain))

NextSpaced == SpacedSetState \/ SpacedTimerFires \/ SpacedUndo

SpecSpaced == InitSpaced /\ [][NextSpaced]_vars

\* Lemma (SpecSpaced): the prefilled initial states of Spec are the states the
\* hook reaches by spaced commits from construction.
PrefillReachable ==
    (/\ initialState.difficulty = 0
     /\ stride = 1
     /\ nUndos = 0
     /\ nCommits <= MAX_HISTORY_SIZE
     /\ ~debounceTimerRef.armed)
        => St = afterSpacedCommits(nCommits)

\* Lemma (SpecSpaced): the earlier revision, given the same spaced commits
\* and undos, holds the same state cell.
PlainPrefillReachable == plain = history(St)

\* ------- SpecSettled: both revisions, each commit's timer fires before
\* the next call
\* The debounced hook and the earlier revision receive the same calls of
\* setState, undo, redo and clearHistory; a call is made only when no debounce
\* timer is pending, that is, after the timer of the last accepted commit has
\* fired.
SettledSetState ==
    \E newState \in NewStates :
        /\ ~debounceTimerRef.armed
        /\ Bounded
        /\ ApplyBoth("setState", setState(St, newState), resolve(newState, present),
                     plainSetState(plain, newState))

SettledUndo ==
    /\ ~debounceTimerRef.armed
    /\ Bounded
    /\ ApplyBoth("undo", undo(St), present,
                 plainUndo(plain))

SettledRedo ==
    /\ ~debounceTimerRef.armed
    /\ Bounded
    /\ ApplyBoth("redo", redo(St), present,
                 plainRedo(plain))

SettledClearHistory ==
    /\ ~debounceTimerRef.armed
    /\ Bounded
    /\ ApplyBoth("clearHistory", clearHistory(St), present,
                 plainClearHistory(plain))

NextSettled ==
    SettledSetState \/ SettledUndo \/ SettledRedo \/ SettledClearHistory \/ TimerFires

\* Both revisions right after construction, or after 49 or 50 spaced commits
\* (PrefillReachable, PlainPrefillReachable).
InitSettled ==
    \E n \in Prefill : InitBoth(afterSpacedCommits(n), [difficulty |-> 0], 1)

SpecSettled == InitSettled /\ [][NextSettled]_vars

\* ------------------------------------- SpecExport: export, then import back
\* Longest hero name explored.
MaxNameLen == 3

\* Characters of hero names: upper case, lower case, digit, space, hyphen.
NameChars == {"A", "b", "7", " ", "-"}

RECURSIVE Names(_)
Names(n) ==
    IF n = 0 THEN {<<>>}
    ELSE Names(n - 1) \cup {Append(s, c) : s \in {x \in Names(n - 1) : Len(x) = n - 1}, c \in NameChars}

\* A HeroData as the form editor holds it.  heroLogo is the optional field
\* that "remove logo" sets to undefined; difficulty is any JavaScript number.
hero(name, difficulty, logo) ==
    LET h == Obj([name |-> Str(name),
                  role |-> Str(<<"Duelist">>),
                  difficulty |-> difficulty,
                  portraitSettings |->
                      Obj([scale |-> Num(2), offsetX |-> Num(10), offsetY |-> Num(0),
                           fadeAmount |-> Num(40), crop |-> getDefaultCropBounds]),
                  heroInfoSettings |-> Obj([offsetX |-> Num(5), offsetY |-> Num(0)]),
                  bannerColor |-> Str(<<"#2563eb">>),
                  attacks |->
                      Arr(<<Obj([id |-> Str(<<"a1">>), name |-> Str(<<"ATTACK NAME">>),
                                 description |-> Str(<<>>), hotkey |-> Str(<<"LMB">>)])>>),
                  teamUpAbilities |-> Arr(<<>>),
                  abilities |->
                      Arr(<<Obj([id |-> Str(<<"b1">>), name |-> Str(<<"ABILITY">>),
                                 description |-> Str(<<>>), hotkey |-> Str(<<"E">>)])>>),
                  passives |-> Arr(<<>>),
                  ultimate |->
                      Obj([id |-> Str(<<"u1">>), name |-> Str(<<"FINISHER">>),
                           description |-> Str(<<>>), hotkey |-> Str(<<"Q">>)]),
                  additionalPages |-> Arr(<<>>)])
    IN IF logo = "none" THEN h
       ELSE set(h, "heroLogo",
                IF logo = "removed" THEN Undefined ELSE Str(<<"data:image/png;base64,AA">>))

HeroDatas ==
    {hero(name, difficulty, logo) :
        name \in Names(MaxNameLen),
        difficulty \in {Num(3), NaN},
        logo \in {"none", "set", "removed"}}

\* A DisplaySettings as the application holds it.
display(currentPage, customBackground) ==
    Obj([showRoleBadge |-> Bool(FALSE),
         controlScheme |-> Str(<<"PC">>),
         currentPage |-> Num(currentPage),
         showBackground |-> Bool(TRUE),
         customBackground |-> customBackground,
         flipBackgroundHorizontally |-> Bool(TRUE),
         foldSettings |-> Obj([foldOffsetX |-> Num(0), foldOffsetY |-> Num(0),
                               foldRotation |-> Num(0)]),
         useImageBanner |-> Bool(TRUE),
         imageBannerSettings |-> Obj([bannerOffsetX |-> Num(0)]),
         showUltimateLightning |-> Bool(FALSE),
         contentOffsetY |-> Num(0),
         abilitySpacing |-> Num(16)])

DisplaySettingsSet ==
    {display(currentPage, customBackground) :
        currentPage \in {0, 1},
        customBackground \in {Undefined, Str(<<"data:image/png;base64,BB">>)}}

\* new Date().toISOString() at the instants an export is made
Instants == {"2025-01-01T00:00:00.000Z", "2025-06-30T12:00:00.000Z"}

InitExport ==
    /\ HookIdle
    /\ PlainIdle
    /\ AppIdle /\ UiIdle
    /\ pc = "app"
    /\ heroData \in HeroDatas
    /\ displaySettings \in DisplaySettingsSet
    /\ template = Undefined
    /\ fileContent = NotJson
    /\ filename = <<>>
    /\ defects = 0
    /\ parsed = Undefined
    /\ reparsed = Undefined

\* The user exports the hero: downloadTemplate(heroData, displaySettings).
DownloadTemplate ==
    /\ pc = "app"
    /\ \E now \in Instants :
         LET d == downloadTemplate(heroData, displaySettings, now)
         IN /\ template' = d.template
            /\ fileContent' = d.json
            /\ filename' = d.filename
    /\ pc' = "file"
    /\ UNCHANGED <<outsideCodec, heroData, displaySettings, defects, parsed, reparsed>>

\* The user imports the file: parseTemplateFile(fileContent).
ParseTemplateFile ==
    /\ pc = "file"
    /\ parsed' = parseTemplateFile(fileContent)
    /\ pc' = "parsed"
    /\ UNCHANGED <<outsideCodec, heroData, displaySettings, template, fileContent,
                   filename, defects, reparsed>>

\* The imported document is saved as JSON and imported again:
\* parseTemplateFile(JSON.stringify(template, null, 2)).
ParseAgain ==
    /\ pc = "parsed"
    /\ ~parsed.threw
    /\ reparsed' = parseTemplateFile(stringify(parsed.template))
    /\ pc' = "reparsed"
    /\ UNCHANGED <<outsideCodec, heroData, displaySettings, template, fileContent,
                   filename, defects, parsed>>

NextExport == DownloadTemplate \/ ParseTemplateFile \/ ParseAgain

SpecExport == InitExport /\ [][NextExport]_vars

\* -------------------------------------- SpecImport: a hand-edited template
\* Number of hand edits made to a template file before it is imported.
MaxDefects == 2

\* What a hand edit writes in place of a field.
Variants ==
    {Null, Bool(FALSE), Num(0), Num(99), Infinity, Str(<<>>), Str(<<"x">>), Arr(<<>>),
     Arr(<<Str(<<"x">>)>>), Obj(<<>>)}

\* The fields of the envelope and of heroData that hand edits touch: the ones
\* parseTemplateFile inspects, and heroLogo and displaySettings, which it does
\* not.
TemplateKeys == {"version", "heroData", "displaySettings"}
HeroKeys ==
    {"name", "role", "difficulty", "bannerColor", "attacks", "abilities",
     "passives", "teamUpAbilities", "additionalPages", "ultimate",
     "portraitSettings", "heroInfoSettings", "heroLogo"}

\* A template file the application exported, or a file that is not JSON.
InitImport ==
    /\ HookIdle
    /\ PlainIdle
    /\ AppIdle /\ UiIdle
    /\ pc = "file"
    /\ heroData = Undefined
    /\ displaySettings = Undefined
    /\ template = Undefined
    /\ fileContent \in
         {NotJson,
          downloadTemplate(hero(<<"A">>, Num(3), "set"), display(0, Undefined),
                           "2025-01-01T00:00:00.000Z").json}
    /\ filename = <<>>
    /\ defects = 0
    /\ parsed = Undefined
    /\ reparsed = Undefined

\* The document with its field k replaced by x, or deleted.
edited(doc, k, x, remove) == IF remove THEN delete(doc, k) ELSE set(doc, k, x)

\* The user edits the file by hand before importing it: the whole document,
\* one field of the envelope or one field of heroData is replaced or deleted.
HandEdit ==
    /\ pc = "file"
    /\ fileContent.valid
    /\ defects < MaxDefects
    /\ defects' = defects + 1
    /\ \E x \in Variants, remove \in BOOLEAN :
         LET doc == JSONparse(fileContent)
         IN \/ /\ ~remove
               /\ fileContent' = Text(x)
            \/ /\ doc.t = "object"
               /\ \E k \in TemplateKeys : fileContent' = Text(edited(doc, k, x, remove))
            \/ /\ doc.t = "object"
               /\ get(doc, "heroData").t = "object"
               /\ \E k \in HeroKeys :
                    fileContent' =
                        Text(set(doc, "heroData", edited(get(doc, "heroData"), k, x, remove)))
    /\ UNCHANGED <<outsideCodec, pc, heroData, displaySettings, template, filename, parsed,
                   reparsed>>

NextImport == HandEdit \/ ParseTemplateFile \/ ParseAgain

SpecImport == InitImport /\ [][NextImport]_vars

\* ------------------------------------------ SpecApp: the editor's handlers
\* Number of handler calls and timer firings explored.
MaxAppSteps == 5
\* Most additional pages a hero is given.
MaxPages == 2
\* Most portrait file reads pending at once.
MaxUploads == 1

\* The ids generateId() may return, and the data URLs a FileReader may read.
PageIds == {"p1", "p2"}
DataUrls == {"data:image/png;base64,AA"}

\* App as mounted: useHistory({heroData: getDefaultHeroData(), displaySettings:
\* getDefaultDisplaySettings()}).
InitApp ==
    LET appState == Obj([heroData |-> getDefaultHeroData,
                         displaySettings |-> getDefaultDisplaySettings])
    IN  /\ InitHook(useHistory(appState), appState, 1)
        /\ CodecIdle
        /\ PlainIdle
        /\ uploads = {}
        /\ lastHandler = "mount"
        /\ UiIdle

\* One handler call that takes the hook to s2.
ApplyApp(handler, op, s2) ==
    /\ steps < MaxAppSteps
    /\ steps' = steps + 1
    /\ lastHandler' = handler
    /\ ApplyHook(op, s2, s2.present)
    /\ UNCHANGED <<plain, stale, spacedVars>>

UpdateField ==
    \E value \in 1..MaxDifficulty :
        /\ ApplyApp("updateField", "setState", updateField(St, heroOf(present), value))
        /\ UNCHANGED uploads

AddPage ==
    \E id \in PageIds :
        /\ Len(pagesOf(present)) < MaxPages
        /\ ApplyApp("addPage", "setState", addPage(St, heroOf(present), id))
        /\ UNCHANGED uploads

RemovePage ==
    \E i \in DOMAIN pagesOf(present) :
        /\ ApplyApp("removePage", "setState",
                    removePage(St, heroOf(present), pagesOf(present)[i].o.id.s[1]))
        /\ UNCHANGED uploads

\* A click on one of the page buttons, which exist when there are pages.
HandlePageChange ==
    \E page \in 0..Len(pagesOf(present)) :
        /\ Len(pagesOf(present)) > 0
        /\ ApplyApp("handlePageChange", "setState",
                    handlePageChange(St, settingsOf(present), page))
        /\ UNCHANGED uploads

LoadBlank ==
    /\ ApplyApp("loadBlank", "setState", loadBlank(St, settingsOf(present)))
    /\ UNCHANGED uploads

LoadPreset ==
    \E preset \in HERO_PRESETS :
        /\ ApplyApp("loadPreset", "setState", loadPreset(St, settingsOf(present), preset))
        /\ UNCHANGED uploads

AppUndo ==
    /\ ApplyApp("undo", "undo", undo(St))
    /\ UNCHANGED uploads

AppRedo ==
    /\ ApplyApp("redo", "redo", redo(St))
    /\ UNCHANGED uploads

AppTimerFires ==
    /\ debounceTimerRef.armed
    /\ ApplyApp("timer", "timer", timerCallback(St))
    /\ UNCHANGED uploads

\* handleImageUpload(file): the read is started; its onload closes over the
\* heroData of this render.
HandleImageUpload ==
    \E result \in DataUrls :
        /\ Cardinality(uploads) < MaxUploads
        /\ uploads' = uploads \cup {[heroData |-> heroOf(present), result |-> result]}
        /\ ApplyApp("handleImageUpload", "none", St)

\* The read completes and reader.onload runs.
ReaderOnload ==
    \E u \in uploads :
        /\ uploads' = uploads \ {u}
        /\ ApplyApp("onload", "setState", readerOnload(St, u.heroData, u.result))

NextApp ==
    \/ UpdateField
    \/ AddPage
    \/ RemovePage
    \/ HandlePageChange
    \/ LoadBlank
    \/ LoadPreset
    \/ AppUndo
    \/ AppRedo
    \/ AppTimerFires
    \/ HandleImageUpload
    \/ ReaderOnload

SpecApp == InitApp /\ [][NextApp]_vars

\* ------------------------------- SpecPreview: exporting the preview as PNG
\* The preview is mounted (targetRef.current and rendererRef.current are the
\* rendered page) inside or outside a scale wrapper.
InitPreview ==
    /\ HookIdle
    /\ CodecIdle
    /\ PlainIdle
    /\ AppIdle
    /\ CropIdle
    /\ \E scaleWrapper \in BOOLEAN, transform \in Transforms :
           style = [scaleWrapper |-> scaleWrapper, transform |-> transform,
                    visibility |-> [el \in NoExport |-> ""]]
    /\ calls = [c \in Callers |-> noCall]
    /\ handlers = [i \in Attempts |-> "unused"]
    /\ button = [isExporting |-> FALSE, exportStatus |-> "idle", error |-> Null,
                 timers |-> 0, notified |-> <<>>]
    /\ opener = [isOpeningTab |-> FALSE]
    /\ uiOp = [op |-> "mount", caller |-> OpenTab]

outsideExport == <<historyVars, codecVars, plain, appVars, cropVars>>

\* The export attempts whose handler has been entered and has not finished.
inFlight == {i \in Attempts : handlers[i] \notin {"unused", "done"}}

\* Caller c calls exportToPNG / openInNewTab, which runs to its first await.
CallBegins(c) ==
    /\ calls' = [calls EXCEPT ![c] = beginCapture(style)]
    /\ style' = hideForCapture(style)

\* A click on the export button: handleExport, and handleShare when
\* isMobile && canShare(), as far as the first await.
ClickExport ==
    \E i \in Attempts, share \in BOOLEAN :
        /\ ~disabled(button)
        /\ handlers[i] = "unused"
        /\ \A j \in Attempts : j < i => handlers[j] # "unused"
        /\ button' = exportStarted(button)
        /\ IF share
           THEN /\ handlers' = [handlers EXCEPT ![i] = "blob"]
                /\ UNCHANGED <<style, calls>>
           ELSE /\ handlers' = [handlers EXCEPT ![i] = "png"]
                /\ CallBegins(i)
        /\ uiOp' = [op |-> "click", caller |-> i]
        /\ UNCHANGED <<opener, outsideExport>>

\* A click on "Preview": handleOpenInNewTab as far as the first await.
ClickOpenInNewTab ==
    /\ ~opener.isOpeningTab
    /\ opener' = [isOpeningTab |-> TRUE]
    /\ CallBegins(OpenTab)
    /\ uiOp' = [op |-> "click", caller |-> OpenTab]
    /\ UNCHANGED <<handlers, button, outsideExport>>

\* The layout wait of a call is over: domToPng is called.
LayoutDone(c) ==
    /\ calls[c].pc = "layout"
    /\ calls' = [calls EXCEPT ![c].pc = "capture"]
    /\ uiOp' = [op |-> "layout", caller |-> c]
    /\ UNCHANGED <<style, handlers, button, opener, outsideExport>>

\* domToPng resolves: the call restores the preview, hands the image over
\* and returns.
CaptureResolves(c) ==
    /\ calls[c].pc = "capture"
    /\ style' = restoreAfterCapture(style, calls[c].originalTransform)
    /\ calls' = [calls EXCEPT ![c].pc = "returned"]
    /\ uiOp' = [op |-> "returned", caller |-> c]
    /\ UNCHANGED <<handlers, button, opener, outsideExport>>

\* domToPng rejects: the call logs the error and rethrows it.
CaptureRejects(c) ==
    /\ calls[c].pc = "capture"
    /\ calls' = [calls EXCEPT ![c].pc = "threw"]
    /\ uiOp' = [op |-> "threw", caller |-> c]
    /\ UNCHANGED <<style, handlers, button, opener, outsideExport>>

\* Attempt i ends with the given export status.
Finish(i, status) ==
    /\ button' = exportSettled(button, status)
    /\ handlers' = [handlers EXCEPT ![i] = "done"]

\* The promise of exportToBlob settles (handleShare). A resolved blob is
\* shared when the browser can share it and downloaded otherwise; a rejection
\* named AbortError ends the attempt, any other starts the fallback download.
BlobSettles(i) ==
    \E outcome \in {"share", "download", "AbortError", "Error"} :
        /\ handlers[i] = "blob"
        /\ CASE outcome = "share" ->
                    /\ handlers' = [handlers EXCEPT ![i] = "share"]
                    /\ UNCHANGED <<style, calls, button>>
             [] outcome = "download" ->
                    /\ handlers' = [handlers EXCEPT ![i] = "sharepng"]
                    /\ CallBegins(i)
                    /\ UNCHANGED button
             [] outcome = "AbortError" ->
                    /\ Finish(i, "idle")
                    /\ UNCHANGED <<style, calls>>
             [] outcome = "Error" ->
                    /\ handlers' = [handlers EXCEPT ![i] = "fallback"]
                    /\ CallBegins(i)
                    /\ UNCHANGED button
        /\ uiOp' = [op |-> "blob", caller |-> i]
        /\ UNCHANGED <<opener, outsideExport>>

\* The promise of navigator.share settles (handleShare).
ShareSettles(i) ==
    \E outcome \in {"shared", "AbortError", "Error"} :
        /\ handlers[i] = "share"
        /\ CASE outcome = "shared" ->
                    /\ Finish(i, "success")
                    /\ UNCHANGED <<style, calls>>
             [] outcome = "AbortError" ->
                    /\ Finish(i, "idle")
                    /\ UNCHANGED <<style, calls>>
             [] outcome = "Error" ->
                    /\ handlers' = [handlers EXCEPT ![i] = "fallback"]
                    /\ CallBegins(i)
                    /\ UNCHANGED button
        /\ uiOp' = [op |-> "share", caller |-> i]
        /\ UNCHANGED <<opener, outsideExport>>

\* The handler of attempt i resumes after its exportToPNG call: in
\* handleExport and in the fallback the attempt ends, in the try of
\* handleShare a failure starts the fallback download.
ExportSettles(i) ==
    /\ handlers[i] \in {"png", "sharepng", "fallback"}
    /\ calls[i].pc \in {"returned", "threw"}
    /\ IF calls[i].pc = "returned"
       THEN /\ Finish(i, "success")
            /\ calls' = [calls EXCEPT ![i] = noCall]
            /\ UNCHANGED style
       ELSE IF handlers[i] = "sharepng"
            THEN /\ handlers' = [handlers EXCEPT ![i] = "fallback"]
                 /\ CallBegins(i)
                 /\ UNCHANGED button
            ELSE /\ Finish(i, "error")
                 /\ calls' = [calls EXCEPT ![i] = noCall]
                 /\ UNCHANGED style
    /\ uiOp' = [op |-> "settled", caller |-> i]
    /\ UNCHANGED <<opener, outsideExport>>

\* handleOpenInNewTab resumes after openInNewTab: its finally block.
OpenInNewTabSettles ==
    /\ opener.isOpeningTab
    /\ calls[OpenTab].pc \in {"returned", "threw"}
    /\ opener' = [isOpeningTab |-> FALSE]
    /\ calls' = [calls EXCEPT ![OpenTab] = noCall]
    /\ uiOp' = [op |-> "settled", caller |-> OpenTab]
    /\ UNCHANGED <<style, handlers, button, outsideExport>>

\* A timer set after a successful export fires: setExportStatus('idle').
StatusTimerFires ==
    /\ button.timers > 0
    /\ button' = [button EXCEPT !.timers = @ - 1, !.exportStatus = "idle"]
    /\ uiOp' = [op |-> "timer", caller |-> OpenTab]
    /\ UNCHANGED <<style, calls, handlers, opener, outsideExport>>

\* The steps that take the export of attempt i forward.
Progress(i) ==
    \/ LayoutDone(i)
    \/ CaptureResolves(i)
    \/ CaptureRejects(i)
    \/ BlobSettles(i)
    \/ ShareSettles(i)
    \/ ExportSettles(i)

NextPreview ==
    \/ ClickExport
    \/ ClickOpenInNewTab
    \/ \E i \in Attempts : Progress(i)
    \/ LayoutDone(OpenTab)
    \/ CaptureResolves(OpenTab)
    \/ CaptureRejects(OpenTab)
    \/ OpenInNewTabSettles
    \/ StatusTimerFires

SpecPreview == InitPreview /\ [][NextPreview]_vars

\* The event loop runs every continuation that is ready, and the promises an
\* export awaits settle.
SpecPreviewFair == SpecPreview /\ \A i \in Attempts : WF_vars(Progress(i))

\* ------------------------------------------- SpecCrop: the crop editor
\* The crops the editor is opened on (initialCrop), in percent of the image.
InitialCrops ==
    {resetCrop,
     [top |-> 10, left |-> 20, right |-> 30, bottom |-> 40],
     [top |-> 0, left |-> 45, right |-> 45, bottom |-> 90]}

\* Pointer coordinates (clientX, clientY) and container sizes, in pixels.
Coordinates == {0, 25, 60}
Rects == {[width |-> 100, height |-> 50]}

InitCrop ==
    /\ HookIdle
    /\ CodecIdle
    /\ PlainIdle
    /\ AppIdle
    /\ ExportIdle
    /\ crop \in InitialCrops
    /\ dragging = Null
    /\ startPos = [x |-> 0, y |-> 0]
    /\ startCrop = crop
    /\ drags = 0
    /\ cropOp = "open"

outsideCrop == <<historyVars, codecVars, plain, appVars, exportVars>>

\* handleMouseDown(edge, e)
MouseDown ==
    \E edge \in Handles, clientX \in Coordinates, clientY \in Coordinates :
        /\ drags < MaxDrags
        /\ drags' = drags + 1
        /\ dragging' = Str(<<edge>>)
        /\ startPos' = [x |-> clientX, y |-> clientY]
        /\ startCrop' = crop
        /\ cropOp' = "mouseDown"
        /\ UNCHANGED <<crop, outsideCrop>>

\* handleMouseMove(e), a listener of the window while a handle is dragged
MouseMove ==
    \E clientX \in Coordinates, clientY \in Coordinates, rect \in Rects :
        /\ truthy(dragging)
        /\ LET deltaX == ((clientX - startPos.x) * 100) \div rect.width
               deltaY == ((clientY - startPos.y) * 100) \div rect.height
           IN  crop' = newCrop(dragging.s[1], startCrop, deltaX, deltaY)
        /\ cropOp' = "mouseMove"
        /\ UNCHANGED <<dragging, startPos, startCrop, drags, outsideCrop>>

\* handleMouseUp(), a listener of the window while a handle is dragged
MouseUp ==
    /\ truthy(dragging)
    /\ dragging' = Null
    /\ cropOp' = "mouseUp"
    /\ UNCHANGED <<crop, startPos, startCrop, drags, outsideCrop>>

\* The Reset button
Reset ==
    /\ crop' = resetCrop
    /\ cropOp' = "reset"
    /\ UNCHANGED <<dragging, startPos, startCrop, drags, outsideCrop>>

NextCrop == MouseDown \/ MouseMove \/ MouseUp \/ Reset

SpecCrop == InitCrop /\ [][NextCrop]_vars

\* ------------------------------------------------------------------ claims
\* p with x pushed as a new undo step, the oldest entry dropped at the cap.
pushed(p, x) ==
    IF Len(p) < 50 THEN p \o <<x>> ELSE Tail(p) \o <<x>>

\* The last step was a setState whose resolved value differed from present.
accepted == lastOp = "setState" /\ resolved # prev.present

\* C1 (as claimed): a run of commits that starts with no grouping window open,
\* each differing from the present and each made while the timer of the one
\* before is pending, adds exactly one entry to past: the present from before
\* the first commit of the run.
C1_GroupAddsOneEntry ==
    chainLen > 0 => past = pushed(chainPast, chainBase)

\* C2 (as claimed): every redo() closes the grouping window: the next commit
\* whose value differs from present pushes the then-present onto past.
C2_RedoClosesWindow ==
    lastOp = "redo" =>
        \A v \in T : v # present =>
            LET r == setState(St, Literal(v))
            IN  r.past = pushed(past, present) /\ r.present = v

\* C3: every undo() closes the grouping window: no timer stays pending and the
\* next commit whose value differs from present pushes the post-undo present
\* onto past as a fresh undo step.
C3_UndoClosesWindow ==
    lastOp = "undo" =>
        /\ ~debounceTimerRef.armed
        /\ \A n \in NewStates : resolve(n, present) # present =>
               LET r == setState(St, n)
               IN  r.past = pushed(past, present) /\ r.present = resolve(n, present)

\* C3 witness: an undo made while a grouping window was open (a timer pending
\* and the present already changed since the last-saved snapshot).
C3_Witness ==
    /\ lastOp = "undo"
    /\ prev.debounceTimerRef.armed
    /\ prev.present # prev.lastSavedStateRef
    /\ Len(prev.past) > 0

\* C4 (as claimed): after N >= 1 spaced commits past has length min(N, 50) and
\* canUndo is true; N calls of undo() then make present the initial state and
\* canUndo false.
C4_UndoAllReturnsToInitial ==
    nCommits >= 1 =>
        /\ nUndos = 0 =>
               /\ Len(past) = (IF nCommits < 50 THEN nCommits ELSE 50)
               /\ canUndo
        /\ nUndos = nCommits =>
               /\ present = initialState
               /\ ~canUndo

\* C4 (amended): after N >= 1 spaced commits past has length min(N, 50) and
\* canUndo is true; N calls of undo() then make canUndo false and present the
\* initial state when N <= 50, the value of commit N - 50 (the oldest state
\* still retained) when N > 50.
C4_UndoAllReturnsToOldest ==
    nCommits >= 1 =>
        /\ nUndos = 0 =>
               /\ Len(past) = (IF nCommits < 50 THEN nCommits ELSE 50)
               /\ canUndo
        /\ nUndos = nCommits =>
               /\ present = (IF nCommits <= 50 THEN initialState
                             ELSE committed(nCommits - 50))
               /\ ~canUndo

\* C4 witness: more commits than the cap, all of them followed by an undo.
C4_Witness ==
    /\ nCommits > 50
    /\ nUndos = nCommits
    /\ lastOp = "undo"

\* C5: a setState whose resolved value equals present changes nothing: past,
\* present, future (so canUndo and canRedo), the pending timer, the last-saved
\* snapshot and the history version all keep their values.
C5_NoOpCommit ==
    (lastOp = "setState" /\ resolved = prev.present) =>
        /\ past = prev.past
        /\ present = prev.present
        /\ future = prev.future
        /\ debounceTimerRef = prev.debounceTimerRef
        /\ lastSavedStateRef = prev.lastSavedStateRef
        /\ historyVersionRef = prev.historyVersionRef

\* C5 witness: a no-op commit made inside a grouping window, timer pending.
C5_Witness ==
    /\ lastOp = "setState"
    /\ resolved = prev.present
    /\ prev.debounceTimerRef.armed
    /\ prev.present # prev.lastSavedStateRef

\* C6: every accepted commit leaves future empty, so canRedo is false.
C6_CommitClearsFuture ==
    accepted => (future = <<>> /\ ~canRedo)

\* C6 witness: an accepted commit made when an undo had left future non-empty.
C6_Witness ==
    /\ accepted
    /\ Len(prev.future) > 0

\* C7: past and future each hold at most 50 entries in every reachable state.
C7_BoundedStacks ==
    /\ Len(past) <= 50
    /\ Len(future) <= 50

\* C7 witness: a redo has just appended to past and filled it to the cap.
C7_Witness ==
    /\ lastOp = "redo"
    /\ Len(prev.past) = 49
    /\ Len(past) = 50

\* C8: undo with past non-empty moves the last entry of past into present and
\* the old present to the front of future; redo with future non-empty moves the
\* first entry of future into present and the old present to the end of past;
\* canUndo / canRedo say exactly whether past / future is non-empty.
C8_UndoRedoEffect ==
    /\ (lastOp = "undo" /\ prev.past # <<>>) =>
           /\ past \o <<present>> = prev.past
           /\ future = <<prev.present>> \o prev.future
    /\ (lastOp = "redo" /\ prev.future # <<>>) =>
           /\ <<present>> \o future = prev.future
           /\ past = prev.past \o <<prev.present>>
    /\ canUndo <=> past # <<>>
    /\ canRedo <=> future # <<>>

\* C8 witness: a redo with entries on both stacks before and after it.
C8_Witness ==
    /\ lastOp = "redo"
    /\ Len(prev.future) > 1
    /\ Len(prev.past) > 0

\* C9: undo with past empty and redo with future empty leave past, present and
\* future (so canUndo and canRedo) as they were.
C9_UnderflowNoOp ==
    (\/ lastOp = "undo" /\ prev.past = <<>>
     \/ lastOp = "redo" /\ prev.future = <<>>) =>
        /\ past = prev.past
        /\ present = prev.present
        /\ future = prev.future

\* C9 witness: an undo past the start, the undone states waiting in future.
C9_Witness ==
    /\ lastOp = "undo"
    /\ prev.past = <<>>
    /\ Len(prev.future) > 0

\* C10: clearHistory empties past and future, keeps present and leaves no timer
\* pending; canUndo and canRedo are false and the next commit that differs from
\* present makes that present the single entry of past.
C10_ClearHistory ==
    lastOp = "clearHistory" =>
        /\ past = <<>>
        /\ future = <<>>
        /\ present = prev.present
        /\ ~debounceTimerRef.armed
        /\ ~canUndo
        /\ ~canRedo
        /\ \A n \in NewStates : resolve(n, present) # present =>
               setState(St, n).past = <<present>>

\* C10 witness: clearHistory called in the middle of a grouping window.
C10_Witness ==
    /\ lastOp = "clearHistory"
    /\ prev.debounceTimerRef.armed
    /\ prev.present # prev.lastSavedStateRef
    /\ prev.past # <<>>

\* C11: when the debounce timer of the most recent commit fires (no later
\* commit, undo or redo having superseded it) the grouping window ends: the
\* next commit whose value differs from present pushes the then-present onto
\* past, trimmed to 50, and does not overwrite present in place.
C11_TimerEndsWindow ==
    lastOp = "timer" =>
        \A n \in NewStates : resolve(n, present) # present =>
            LET r == setState(St, n)
            IN  /\ r.past = pushed(past, present)
                /\ r.present = resolve(n, present)

\* C11 witness: the timer fires at the end of a group of two or more commits.
C11_Witness ==
    /\ lastOp = "timer"
    /\ prev.present # prev.lastSavedStateRef
    /\ prev.debounceTimerRef.resolvedState = prev.present

\* C12 (as claimed): when a group of in-window commits is followed by expiry
\* of its timer and then by a further accepted commit, past is what it was
\* before the group plus two entries, the value before the group and the final
\* value of the group (no intermediate value), and one undo() makes the final
\* value of the group the present.
C12_GroupThenCommit ==
    grp.phase = "next" =>
        /\ past = pushed(pushed(grp.past0, grp.base), grp.final)
        /\ undo(St).present = grp.final

\* C20: a debounce timer callback that runs although undo() or redo() was
\* called after it was scheduled changes nothing: the last-saved snapshot, and
\* with it the rest of the hook's state, is as before; and the history version
\* never decreases.
C20_StaleCallbackInvalidated ==
    /\ lastOp = "staleAfterUndoRedo" =>
           /\ lastSavedStateRef = prev.lastSavedStateRef
           /\ St = prev
    /\ historyVersionRef >= prev.historyVersionRef

\* C20 witness: such a callback has run, carrying a value that is not the
\* last-saved snapshot.
C20_Witness ==
    /\ lastOp = "staleAfterUndoRedo"
    /\ resolved # lastSavedStateRef


\* ----------------------------------------------------- claims on the codec
\* The JSON value the imported file holds (of a file that is JSON).
fileDoc == JSONparse(fileContent)
\* v is a JSON object: neither a primitive, nor null, nor an array.
isRecord(v) == v.t = "object"
\* v is a JSON object with a property k.
has(v, k) == isRecord(v) /\ k \in DOMAIN v.o

\* C13: parseTemplateFile throws exactly when the text is not JSON, or the
\* parsed value is not an object, or heroData is missing or not an object, or
\* heroData.name is not a string; on every other input, whatever else is
\* missing, null or wrong-typed, it returns a document.
C13_ThrowsExactlyInFourCases ==
    pc = "parsed" =>
        /\ parsed.threw <=>
              \/ ~fileContent.valid
              \/ ~isRecord(fileDoc)
              \/ ~has(fileDoc, "heroData")
              \/ ~isRecord(fileDoc.o.heroData)
              \/ ~has(fileDoc.o.heroData, "name")
              \/ fileDoc.o.heroData.o.name.t # "string"
        /\ ~parsed.threw => isRecord(parsed.template)

\* A file with two defects outside the four cases (attacks is missing and
\* ultimate is null) was imported and a document came back.
C13_Witness ==
    /\ pc = "parsed"
    /\ defects = 2
    /\ ~parsed.threw
    /\ ~has(fileDoc.o.heroData, "attacks")
    /\ get(fileDoc.o.heroData, "ultimate") = Null


\* heroData of the imported file and of the document parseTemplateFile returned.
fileHero == fileDoc.o.heroData
parsedHero == parsed.template.o.heroData
\* v is an object for JavaScript (typeof 'object' and not null): a record or
\* an array.
isObject(v) == v.t \in {"object", "array"}

ArrayKeys == {"attacks", "abilities", "passives", "teamUpAbilities", "additionalPages"}
SettingsKeys == {"portraitSettings", "heroInfoSettings"}
InspectedKeys ==
    ArrayKeys \cup SettingsKeys \cup {"ultimate", "role", "difficulty", "bannerColor"}

C15_WellTypedFieldsKept ==
    (pc = "parsed" /\ ~parsed.threw) =>
        /\ get(fileDoc, "version").t = "number" =>
              parsed.template.o.version = fileDoc.o.version
        /\ \A k \in ArrayKeys :
              get(fileHero, k).t = "array" => parsedHero.o[k] = fileHero.o[k]
        /\ \A k \in SettingsKeys \cup {"ultimate"} :
              isObject(get(fileHero, k)) => parsedHero.o[k] = fileHero.o[k]
        /\ \A k \in {"role", "bannerColor"} :
              get(fileHero, k).t = "string" => parsedHero.o[k] = fileHero.o[k]
        /\ get(fileHero, "difficulty").t = "number" =>
              parsedHero.o.difficulty = fileHero.o.difficulty
        /\ \A k \in DOMAIN fileDoc.o \ {"version", "heroData"} :
              parsed.template.o[k] = fileDoc.o[k]
        /\ \A k \in DOMAIN fileHero.o \ InspectedKeys : parsedHero.o[k] = fileHero.o[k]
        /\ DOMAIN parsed.template.o = DOMAIN fileDoc.o \cup {"version"}
        /\ DOMAIN parsedHero.o = DOMAIN fileHero.o \cup InspectedKeys

\* A file edited to difficulty 0 and version 99 was imported and both values
\* came back, with the displaySettings the file held.
C15_Witness ==
    /\ pc = "parsed"
    /\ ~parsed.threw
    /\ defects = 2
    /\ get(fileHero, "difficulty") = Num(0)
    /\ parsedHero.o.difficulty = Num(0)
    /\ parsed.template.o.version = Num(99)
    /\ has(parsed.template, "displaySettings")


\* v is written to JSON and read back without loss: no number in it is NaN
\* and no property or element of it is undefined.
RECURSIVE jsonSafe(_)
jsonSafe(v) ==
    CASE v.t = "undefined" -> FALSE
      [] v.t = "number" -> ~isNaN(v)
      [] v.t = "array" -> \A i \in DOMAIN v.a : jsonSafe(v.a[i])
      [] v.t = "object" -> \A k \in DOMAIN v.o : jsonSafe(v.o[k])
      [] OTHER -> TRUE

\* The import of the exported file has been made.
roundTripDone == pc = "parsed" /\ template # Undefined

\* C16 as stated: for every well-typed, complete heroData and every
\* displaySettings, parsing the text downloadTemplate builds succeeds and
\* returns a document whose heroData equals the original heroData.
C16_RoundTrip ==
    roundTripDone => (~parsed.threw /\ parsedHero = heroData)

\* C16 amended: the same for every heroData in which no number is NaN and no
\* property is undefined.
C16_RoundTripOfJsonValues ==
    (roundTripDone /\ jsonSafe(heroData)) => (~parsed.threw /\ parsedHero = heroData)

\* A hero with a logo and an empty name came back unchanged from the file it
\* was exported to.
C16_Witness ==
    /\ roundTripDone
    /\ jsonSafe(heroData)
    /\ has(heroData, "heroLogo")
    /\ heroData.o.name = Str(<<>>)
    /\ ~parsed.threw
    /\ parsedHero = heroData

AllowListedKeys ==
    {"showRoleBadge", "controlScheme", "showBackground", "customBackground",
     "foldSettings", "useImageBanner", "imageBannerSettings",
     "showUltimateLightning", "contentOffsetY", "abilitySpacing"}

\* C17: the envelope downloadTemplate builds has version 1, name equal to
\* heroData.name or 'Untitled Hero' when that is empty, heroData equal to the
\* input, and a displaySettings object holding exactly the ten allow-listed
\* keys, each with the input's value; currentPage is never exported, neither
\* in the envelope nor in the text written from it.
C17_Envelope ==
    template # Undefined =>
        /\ DOMAIN template.o = {"version", "name", "exportedAt", "heroData", "displaySettings"}
        /\ template.o.version = Num(1)
        /\ template.o.name =
              IF heroData.o.name.s = <<>> THEN Str(<<"Untitled Hero">>) ELSE heroData.o.name
        /\ template.o.heroData = heroData
        /\ isRecord(template.o.displaySettings)
        /\ DOMAIN template.o.displaySettings.o = AllowListedKeys
        /\ \A k \in AllowListedKeys :
              template.o.displaySettings.o[k] = get(displaySettings, k)
        /\ fileDoc.o.version = Num(1)
        /\ DOMAIN fileDoc.o.displaySettings.o \subseteq AllowListedKeys
        /\ \A k \in DOMAIN fileDoc.o.displaySettings.o :
              fileDoc.o.displaySettings.o[k] = displaySettings.o[k]

\* A hero with an empty name was exported while page 1 was selected and a
\* custom background was set.
C17_Witness ==
    /\ pc = "file"
    /\ template # Undefined
    /\ heroData.o.name = Str(<<>>)
    /\ template.o.name = Str(<<"Untitled Hero">>)
    /\ displaySettings.o.currentPage = Num(1)
    /\ template.o.displaySettings.o.customBackground # Undefined

\* C18: decode errors follow the order of the validation steps: text that is
\* not JSON gives the invalid-JSON error; a JSON value that is not a JSON
\* object (null, boolean, number, string or array) the invalid-format error;
\* an object whose heroData is missing or not an object the missing-hero-data
\* error; an object whose heroData.name is not a string the missing-name
\* error; and nothing is returned when an error is thrown.
C18_ErrorOrder ==
    pc = "parsed" =>
        /\ parsed.threw => "template" \notin DOMAIN parsed
        /\ IF ~fileContent.valid
           THEN parsed.threw /\ parsed.error = InvalidJson
           ELSE IF ~isRecord(fileDoc)
           THEN parsed.threw /\ parsed.error = InvalidFormat
           ELSE IF ~has(fileDoc, "heroData") \/ ~isRecord(fileHero)
           THEN parsed.threw /\ parsed.error = MissingHeroData
           ELSE IF ~has(fileHero, "name") \/ fileHero.o.name.t # "string"
           THEN parsed.threw /\ parsed.error = MissingName
           ELSE ~parsed.threw

\* The positions of the lower-cased name l that the slug keeps: the
\* characters in a-z, 0-9 and, of each run of other characters that has such
\* a character before and after it, the first.
slugPositions(l) ==
    {i \in DOMAIN l :
        \/ isAlnum(l[i])
        \/ /\ i > 1
           /\ isAlnum(l[i - 1])
           /\ \E j \in DOMAIN l : j > i /\ isAlnum(l[j])}

\* The slug of a name as the claim describes it.
slugOf(name) ==
    LET l == toLowerCase(name)
        keep == slugPositions(l)
    IN [r \in 1..Cardinality(keep) |->
            LET i == CHOOSE i \in keep : Cardinality({j \in keep : j <= i}) = r
            IN IF isAlnum(l[i]) THEN l[i] ELSE "-"]

\* The saved filename without its '-template.json'.
savedSlug == SubSeq(filename, 1, Len(filename) - Len(templateJson))

\* The saved filename ends in '-template.json' and what precedes it holds only
\* a-z, 0-9 and '-', does not start or end with '-' and has no two adjacent
\* hyphens.
slugShape ==
    /\ Len(filename) >= Len(templateJson)
    /\ SubSeq(filename, Len(filename) - Len(templateJson) + 1, Len(filename)) = templateJson
    /\ \A i \in DOMAIN savedSlug : isAlnum(savedSlug[i]) \/ savedSlug[i] = "-"
    /\ savedSlug # <<>> => (Head(savedSlug) # "-" /\ savedSlug[Len(savedSlug)] # "-")
    /\ \A i \in 1..(Len(savedSlug) - 1) : ~(savedSlug[i] = "-" /\ savedSlug[i + 1] = "-")

\* C19 as stated: for every hero name the exported filename is
\* '<slug>-template.json', slug being the name lower-cased with every maximal
\* run of characters outside a-z and 0-9 replaced by one hyphen and leading
\* and trailing hyphens removed.
C19_Filename ==
    template # Undefined =>
        /\ filename = slugOf(heroData.o.name.s) \o templateJson
        /\ slugShape

\* C19 amended: that holds for every non-empty hero name; for the empty name
\* the filename is 'untitled-template.json'.
C19_FilenameOrUntitled ==
    template # Undefined =>
        /\ filename =
              IF heroData.o.name.s = <<>> THEN untitled \o templateJson
              ELSE slugOf(heroData.o.name.s) \o templateJson
        /\ slugShape

\* The hero "A 7" was exported as 'a-7-template.json'.
C19_Witness ==
    /\ pc = "file"
    /\ heroData.o.name.s = <<"A", " ", "7">>
    /\ filename = <<"a", "-", "7">> \o templateJson


C22_RefinesEarlierRevision == history(St) = plain

\* Both revisions trimmed past at the cap, then took an undo and a redo.
C22_Witness ==
    /\ lastOp = "redo"
    /\ Len(past) = MAX_HISTORY_SIZE
    /\ Len(prev.future) > 0
    /\ steps >= 5
    /\ history(St) = plain

\* past + [present] + future of a state cell
timeline(h) == h.past \o <<h.present>> \o h.future

\* C23: from a state with past non-empty, undo() followed by redo() restores
\* past, present and future; from a state with future non-empty, redo()
\* followed by undo() restores them; and undo() and redo() leave
\* past + [present] + future unchanged.
C23_UndoRedoInverse ==
    /\ (lastOp = "undo" /\ Len(prev.past) > 0) => history(redo(St)) = history(prev)
    /\ (lastOp = "redo" /\ Len(prev.future) > 0) => history(undo(St)) = history(prev)
    /\ canUndo => history(redo(undo(St))) = history(St)
    /\ canRedo => history(undo(redo(St))) = history(St)
    /\ lastOp \in {"undo", "redo"} => timeline(St) = timeline(prev)

\* An undo was made with entries on both stacks, and a redo from the state it
\* reached leads back.
C23_Witness ==
    /\ lastOp = "undo"
    /\ Len(prev.past) > 1
    /\ Len(prev.future) > 0
    /\ history(redo(St)) = history(prev)


\* C24: when the file read started by handleImageUpload completes, the commit
\* of reader.onload changes heroData.portraitImage only: every other field
\* of the hero, and the display settings, are as they were just before it.
C24_OnloadChangesOnlyPortrait ==
    lastHandler = "onload" =>
        /\ delete(heroOf(present), "portraitImage")
               = delete(heroOf(prev.present), "portraitImage")
        /\ settingsOf(present) = settingsOf(prev.present)

\* C28: displaySettings.currentPage is 0 or the 1-based index of an existing
\* additional page.
C28_CurrentPageExists ==
    /\ 0 <= currentPageOf(present)
    /\ currentPageOf(present) <= Len(pagesOf(present))

\* C25: when exportToPNG or openInNewTab has returned or thrown, the scale
\* wrapper's transform is the one it had before the call and no '.no-export'
\* element is hidden.
C25_PreviewRestored ==
    uiOp.op \in {"returned", "threw"} =>
        /\ style.scaleWrapper => style.transform = calls[uiOp.caller].originalTransform
        /\ \A el \in NoExport : style.visibility[el] # "hidden"


\* C26: every export attempt sets isExporting and notifies true once, and once
\* its promise has settled isExporting is false again and false has been
\* notified once; the button is disabled while isExporting, so at most one
\* attempt is in flight and the notifications alternate true, false, ...
notifiedTimes(b) ==
    Cardinality({k \in DOMAIN button.notified : button.notified[k] = b})
C26_ExportingBracketsEachAttempt ==
    /\ [](/\ Cardinality(inFlight) <= 1
          /\ button.isExporting <=> inFlight # {}
          /\ \A k \in DOMAIN button.notified : button.notified[k] = (k % 2 = 1)
          /\ notifiedTimes(TRUE) = Cardinality({i \in Attempts : handlers[i] # "unused"})
          /\ notifiedTimes(FALSE) = Cardinality({i \in Attempts : handlers[i] = "done"}))
    /\ (button.isExporting ~> ~button.isExporting)
C26_Witness ==
    /\ button.notified = <<TRUE, FALSE, TRUE, FALSE>>
    /\ button.exportStatus = "error"
    /\ handlers[1] = "done"

\* C27: the repair of parseTemplateFile is idempotent: the document it
\* returned, written as JSON and parsed again, is accepted and returned
\* unchanged.
RECURSIVE finiteNumbers(_)
finiteNumbers(v) ==
    CASE v.t = "number" -> isFinite(v)
      [] v.t = "array" -> \A i \in DOMAIN v.a : finiteNumbers(v.a[i])
      [] v.t = "object" -> \A k \in DOMAIN v.o : finiteNumbers(v.o[k])
      [] OTHER -> TRUE
C27_RepairIdempotent ==
    pc = "reparsed" => ~reparsed.threw /\ reparsed.template = parsed.template

\* C27 amended: the same for every accepted file in which no number literal
\* is beyond the range of a double.
C27_RepairIdempotentOnFiniteNumbers ==
    pc = "reparsed" /\ finiteNumbers(JSONparse(fileContent)) =>
        ~reparsed.threw /\ reparsed.template = parsed.template
C27_Witness ==
    /\ pc = "reparsed"
    /\ defects > 0
    /\ finiteNumbers(JSONparse(fileContent))
    /\ get(fileDoc, "heroData") # get(parsed.template, "heroData")
    /\ reparsed.template = parsed.template

\* C29: the crop keeps every edge >= 0 and top + bottom <= 90 and
\* left + right <= 90 through drags and resets, and a drag leaves the edges
\* its handle does not carry as they were when the drag began.
Edges == {"top", "bottom", "left", "right"}
edgesOf(handle) ==
    {e \in Edges : handle = e \/ \E other \in Edges : handle \in {e \o "-" \o other, other \o "-" \o e}}
cropKept(c) ==
    /\ \A e \in Edges : c[e] >= 0
    /\ c.top + c.bottom <= 90
    /\ c.left + c.right <= 90
C29_CropInvariant ==
    /\ cropKept(crop)
    /\ cropOp = "mouseMove" =>
           \A e \in Edges \ edgesOf(dragging.s[1]) : crop[e] = startCrop[e]
C29_Witness ==
    /\ cropOp = "mouseMove"
    /\ dragging = Str(<<"top-left">>)
    /\ crop.top > startCrop.top
    /\ crop.top + crop.bottom = 90
    /\ crop.bottom > 0
    /\ crop.left = 0
    /\ startCrop.left > 0
====
